---- MODULE Spec2Model ----
(***************************************************************************)
(* Bond valuation and selection (levalegal/Moex).                          *)
(*                                                                         *)
(* Numbers.  The program computes in binary floating point.  The model     *)
(* computes exactly, on integers:                                          *)
(*   - a yield (rate) is an integer n standing for n / RateScale, a        *)
(*     fixed-point number with RateBits fractional bits; the midpoint of   *)
(*     a bracket is rounded down to that grid, as a float midpoint is      *)
(*     rounded to the float grid;                                          *)
(*   - a time is an integer number of 1/400 days, so that one year of      *)
(*     365.25 days is Year = 146100 units and 0.01 year is 1461 units;     *)
(*   - money is an integer; a present value is an exact fraction           *)
(*     [num, den], compared by cross-multiplication.                       *)
(* Discounting by (1 + rate) ^ t is exact only for a whole number of       *)
(* years, so every schedule that reaches npv holds whole-year times        *)
(* (WholeYearTimes below is checked with the model).                       *)
(***************************************************************************)
EXTENDS Integers, Sequences, FiniteSets, TLC

(* Python's None, a value apart from every number of the model *)
None == -(2 ^ 30)

(* ------------------------------ bounds ------------------------------- *)
RateBits == 3
MaxT == 1
LongT == 28
MaxBonds == 2
MaxDays == 1
MaxPeriods == 2

(* ------------------------- program constants ------------------------- *)
ToleranceInv == 1000000
MaxIterations == 1000

RateScale == 2 ^ RateBits
Year == 400 * 365 + 100
LowBound == -(RateScale \div 2)
HighBound == 2 * RateScale

Abs(x) == IF x < 0 THEN -x ELSE x

MaxOf(S) == CHOOSE x \in S : \A y \in S : y <= x

(* ----------------- exact arithmetic of any magnitude ------------------ *)
(* A natural number is the sequence of its digits in base Base, least
   significant first, without leading zeros; zero is <<>>.  An integer is
   a sign and a magnitude.  These stand for the program's float values:
   Python's arithmetic operators in helpers.py. *)
Base == 10 ^ 4

RECURSIVE NatOf(_)
NatOf(n) == IF n = 0 THEN <<>> ELSE <<n % Base>> \o NatOf(n \div Base)

Rest(a) == IF a = <<>> THEN <<>> ELSE Tail(a)
Digit(a) == IF a = <<>> THEN 0 ELSE Head(a)
Shift(a) == IF a = <<>> THEN <<>> ELSE <<0>> \o a

RECURSIVE Strip(_)
Strip(a) ==
    IF a = <<>> THEN <<>>
    ELSE IF a[Len(a)] = 0 THEN Strip(SubSeq(a, 1, Len(a) - 1))
    ELSE a

RECURSIVE NAddC(_, _, _)
NAddC(a, b, carry) ==
    IF a = <<>> /\ b = <<>>
    THEN IF carry = 0 THEN <<>> ELSE <<carry>>
    ELSE LET x == Digit(a) + Digit(b) + carry
         IN  <<x % Base>> \o NAddC(Rest(a), Rest(b), x \div Base)

NAdd(a, b) == NAddC(a, b, 0)

(* a - b for a >= b, before leading zeros are stripped *)
RECURSIVE NSubB(_, _, _)
NSubB(a, b, borrow) ==
    IF a = <<>> THEN <<>>
    ELSE LET x == Digit(a) - Digit(b) - borrow
         IN  IF x < 0
             THEN <<x + Base>> \o NSubB(Rest(a), Rest(b), 1)
             ELSE <<x>> \o NSubB(Rest(a), Rest(b), 0)

NSub(a, b) == Strip(NSubB(a, b, 0))

(* -1, 0, 1 as a < b, a = b, a > b *)
RECURSIVE NCmpFrom(_, _, _)
NCmpFrom(a, b, i) ==
    IF i = 0 THEN 0
    ELSE IF a[i] < b[i] THEN -1
    ELSE IF a[i] > b[i] THEN 1
    ELSE NCmpFrom(a, b, i - 1)

NCmp(a, b) ==
    IF Len(a) < Len(b) THEN -1
    ELSE IF Len(a) > Len(b) THEN 1
    ELSE NCmpFrom(a, b, Len(a))

(* a * k for a digit k *)
RECURSIVE NMulDigit(_, _, _)
NMulDigit(a, k, carry) ==
    IF a = <<>>
    THEN IF carry = 0 THEN <<>> ELSE <<carry>>
    ELSE LET x == Head(a) * k + carry
         IN  <<x % Base>> \o NMulDigit(Tail(a), k, x \div Base)

RECURSIVE NMul(_, _)
NMul(a, b) ==
    IF a = <<>> \/ b = <<>> THEN <<>>
    ELSE IF Head(b) = 0 THEN Shift(NMul(a, Tail(b)))
    ELSE NAdd(NMulDigit(a, Head(b), 0), Shift(NMul(a, Tail(b))))

RECURSIVE NPow(_, _)
NPow(a, e) == IF e = 0 THEN <<1>> ELSE NMul(a, NPow(a, e - 1))

Z(neg, mag) == [neg |-> neg /\ mag # <<>>, mag |-> mag]
ZOf(n) == Z(n < 0, NatOf(Abs(n)))
ZNeg(a) == Z(~a.neg, a.mag)
ZAdd(a, b) ==
    IF a.neg = b.neg THEN Z(a.neg, NAdd(a.mag, b.mag))
    ELSE IF NCmp(a.mag, b.mag) >= 0 THEN Z(a.neg, NSub(a.mag, b.mag))
    ELSE Z(b.neg, NSub(b.mag, a.mag))
ZSub(a, b) == ZAdd(a, ZNeg(b))
ZMul(a, b) == Z(a.neg # b.neg, NMul(a.mag, b.mag))
ZLess(a, b) ==
    IF a.neg # b.neg THEN a.neg
    ELSE IF a.neg THEN NCmp(a.mag, b.mag) > 0
    ELSE NCmp(a.mag, b.mag) < 0

RECURSIVE ZSum(_, _)
ZSum(f, n) == IF n = 0 THEN ZOf(0) ELSE ZAdd(f[n], ZSum(f, n - 1))

(* An exact fraction: an integer over a positive natural. *)
Q(n, d) == [num |-> n, den |-> d]
QInt(n) == Q(ZOf(n), <<1>>)
QCross(a, b) == ZMul(a.num, Z(FALSE, b.den))
QLess(a, b) == ZLess(QCross(a, b), QCross(b, a))
QEq(a, b) == QCross(a, b) = QCross(b, a)
QPositive(a) == ~a.num.neg /\ a.num.mag # <<>>
(* |a - b| < 1 / inv *)
QWithin(a, b, inv) ==
    NCmp(NMul(ZSub(QCross(a, b), QCross(b, a)).mag, NatOf(inv)),
         NMul(a.den, b.den)) < 0

(* helpers.py calculate_ytm.npv: sum of amount / (1 + rate) ^ time.  With
   1 + rate = p / RateScale and e whole years, amount / (1+rate)^e is
   amount * RateScale^e / p^e; the terms are put over one denominator
   p^up * RateScale^dn (dn > 0 only when an event lies in the past). *)
Exponent(t) == t \div Year

(* the sum of the amounts, not discounted *)
npv_undiscounted(flows, rate) ==
    IF flows = <<>> THEN QInt(0)
    ELSE Q(ZSum([i \in DOMAIN flows |-> ZOf(flows[i].amount)], Len(flows)),
           <<1>>)

npv(flows, rate) ==
    IF flows = <<>> THEN QInt(0)
    ELSE IF rate <= -RateScale THEN "inf"
    ELSE LET p == NatOf(RateScale + rate)
             s == NatOf(RateScale)
             es == {Exponent(flows[i].time) : i \in DOMAIN flows}
             up == MaxOf(es \cup {0})
             dn == MaxOf({-e : e \in es} \cup {0})
             term == [i \in DOMAIN flows |->
                        ZMul(ZOf(flows[i].amount),
                             Z(FALSE,
                               NMul(NPow(s, Exponent(flows[i].time) + dn),
                                    NPow(p, up - Exponent(flows[i].time)))))]
         IN  Q(ZSum(term, Len(flows)), NMul(NPow(p, up), NPow(s, dn)))

(* helpers.py:109, the bracket test at the domain bounds *)
OutOfRangeNoHigh(price, flows) ==
    QLess(npv(flows, LowBound), price)

OutOfRange(price, flows) ==
    \/ QLess(npv(flows, LowBound), price)
    \/ QLess(price, npv(flows, HighBound))

(* helpers.py:115-124, one pass of the bisection loop *)
BisectStepSwapped(price, flows, lo, hi) ==
    LET mid == (lo + hi) \div 2
        npv_mid == npv(flows, mid)
    IN  IF QWithin(npv_mid, price, ToleranceInv)
        THEN [done |-> TRUE, ytm |-> mid, low |-> lo, high |-> hi]
        ELSE IF QLess(price, npv_mid)
        THEN [done |-> FALSE, ytm |-> None, low |-> lo, high |-> mid]
        ELSE [done |-> FALSE, ytm |-> None, low |-> mid, high |-> hi]

BisectStep(price, flows, lo, hi) ==
    LET mid == (lo + hi) \div 2
        npv_mid == npv(flows, mid)
    IN  IF QWithin(npv_mid, price, ToleranceInv)
        THEN [done |-> TRUE, ytm |-> mid, low |-> lo, high |-> hi]
        ELSE IF QLess(price, npv_mid)
        THEN [done |-> FALSE, ytm |-> None, low |-> mid, high |-> hi]
        ELSE [done |-> FALSE, ytm |-> None, low |-> lo, high |-> mid]

(* helpers.py:114-127, the loop and the value returned when the cap is
   exhausted; s is what the pass from (lo, hi) gave.  A pass that
   leaves the bracket as it was (the midpoint rounds to lo) is repeated
   unchanged by every later pass, so the loop then runs to the cap and
   line 127 returns the same midpoint: the recursion stops there instead
   of unfolding the remaining passes. *)
RECURSIVE Bisect(_, _, _, _, _)
RECURSIVE BisectOn(_, _, _, _, _, _)
BisectOn(price, flows, lo, hi, n, s) ==
    IF s.done THEN s.ytm
    ELSE IF s.low = lo /\ s.high = hi THEN (lo + hi) \div 2
    ELSE Bisect(price, flows, s.low, s.high, n + 1)

Bisect(price, flows, lo, hi, n) ==
    IF n = MaxIterations THEN (lo + hi) \div 2
    ELSE BisectOn(price, flows, lo, hi, n,
                  BisectStep(price, flows, lo, hi))

(* helpers.py:81-127 on a clean price and a schedule *)
solve_ytm(price, flows) ==
    IF ~QPositive(price) THEN None
    ELSE IF flows = <<>> THEN None
    ELSE IF OutOfRange(price, flows) THEN None
    ELSE Bisect(price, flows, LowBound, HighBound, 0)

(* ------------------------------- bonds -------------------------------- *)
(* models/bond.py Bond.is_zero_coupon *)
is_zero_coupon(bond) ==
    IF bond.coupon_rate = None THEN Len(bond.coupon_periods) = 0
    ELSE bond.coupon_rate = 0

(* models/bond.py Bond.clean_price *)
clean_price_of(bond) == bond.price - bond.accrued_interest

(* helpers.py years_fraction: days / 365.25, in units of 1/146100 year *)
years_fraction(start_date, end_date) == (end_date - start_date) * 400

(* Python int(): truncation towards zero of a / b, b > 0 *)
IntOf(a, b) == IF a >= 0 THEN a \div b ELSE -((-a) \div b)

(* helpers.py:33-44, the explicit coupon periods: a malformed record
   (coupondate = None: KeyError or ValueError) and a past one are skipped *)
RECURSIVE explicit_coupons(_, _)
explicit_coupons(coupon_periods, today) ==
    IF coupon_periods = <<>> THEN <<>>
    ELSE LET cp == Head(coupon_periods)
             rest == explicit_coupons(Tail(coupon_periods), today)
         IN  IF cp.coupondate = None \/ cp.value = None THEN rest
             ELSE IF cp.coupondate <= today THEN rest
             ELSE <<[time |-> years_fraction(today, cp.coupondate),
                     amount |-> cp.value]>> \o rest

(* helpers.py:53-57, coupons approximated from the coupon rate *)
RECURSIVE approx_coupons_no_break(_, _, _, _, _)
approx_coupons_no_break(i, periods, freq, years_to_maturity, coupon_amount) ==
    IF i > periods THEN <<>>
    ELSE <<[time |-> (i * Year) \div freq, amount |-> coupon_amount]>>
         \o approx_coupons_no_break(i + 1, periods, freq, years_to_maturity,
                                    coupon_amount)

RECURSIVE approx_coupons(_, _, _, _, _)
approx_coupons(i, periods, freq, years_to_maturity, coupon_amount) ==
    IF i > periods THEN <<>>
    ELSE IF (i * Year) \div freq > years_to_maturity THEN <<>>
    ELSE <<[time |-> (i * Year) \div freq, amount |-> coupon_amount]>>
         \o approx_coupons(i + 1, periods, freq, years_to_maturity,
                           coupon_amount)

(* helpers.py:30-57, the schedule before the redemption is added *)
coupon_events(bond, today) ==
    LET explicit == explicit_coupons(bond.coupon_periods, today)
        maturity_time == years_fraction(today, bond.maturity_date)
    IN  IF /\ explicit = <<>>
           /\ bond.coupon_rate # None
           /\ bond.coupon_rate # 0
           /\ ~is_zero_coupon(bond)
        THEN LET freq == IF bond.coupon_rate > 0 THEN 2 ELSE 1
                 periods == LET n == IntOf(maturity_time * freq, Year)
                            IN  IF n > 1 THEN n ELSE 1
             IN  approx_coupons(1, periods, freq, maturity_time,
                     (bond.coupon_rate * bond.nominal) \div (100 * freq))
        ELSE explicit

(* helpers.py:59-71, the redemption of the nominal: 0.01 year is
   Year / 100 *)
add_redemption_appended(coupons, maturity_time, nominal) ==
    Append(coupons, [time |-> maturity_time, amount |-> nominal])

add_redemption(coupons, maturity_time, nominal) ==
    IF coupons # <<>>
    THEN LET n == Len(coupons)
             last_time == coupons[n].time
         IN  IF Abs(maturity_time - last_time) * 100 > Year
             THEN Append(coupons, [time |-> maturity_time,
                                   amount |-> nominal])
             ELSE [coupons EXCEPT ![n].amount = @ + nominal]
    ELSE <<[time |-> maturity_time, amount |-> nominal]>>

(* helpers.py:23-73 *)
get_coupon_schedule(bond, today) ==
    add_redemption(coupon_events(bond, today),
                   years_fraction(today, bond.maturity_date), bond.nominal)

(* helpers.py:76-127 *)
calculate_ytm(bond, today) ==
    solve_ytm(QInt(clean_price_of(bond)), get_coupon_schedule(bond, today))

(* helpers.py:130-151; a time limit in years is held in the units of
   years_fraction *)
is_valid_bond_strict(bond, settings, today) ==
    LET years_to_maturity == years_fraction(today, bond.maturity_date)
    IN  /\ ~(years_to_maturity <= 0)
        /\ ~(years_to_maturity >= settings.max_maturity_years)
        /\ ~(settings.exclude_zero_coupon /\ is_zero_coupon(bond))
        /\ ~(bond.volume_rub < settings.min_volume_rub)

is_valid_bond(bond, settings, today) ==
    LET years_to_maturity == years_fraction(today, bond.maturity_date)
    IN  /\ ~(years_to_maturity <= 0)
        /\ ~(years_to_maturity > settings.max_maturity_years)
        /\ ~(settings.exclude_zero_coupon /\ is_zero_coupon(bond))
        /\ ~(bond.volume_rub < settings.min_volume_rub)

(* list.sort(key, reverse=True) on a list of bond indices: descending by
   key, and stable (equal keys keep their order), which Python's sort
   guarantees with reverse=True as well.  Insertion from the left: an item
   goes after every item whose key is not smaller. *)
RECURSIVE InsertDescUnstable(_, _, _)
InsertDescUnstable(sorted, x, key) ==
    IF sorted = <<>> THEN <<x>>
    ELSE IF key[Head(sorted)] > key[x]
    THEN <<Head(sorted)>> \o InsertDescUnstable(Tail(sorted), x, key)
    ELSE <<x>> \o sorted

RECURSIVE InsertDesc(_, _, _)
InsertDesc(sorted, x, key) ==
    IF sorted = <<>> THEN <<x>>
    ELSE IF key[Head(sorted)] >= key[x]
    THEN <<Head(sorted)>> \o InsertDesc(Tail(sorted), x, key)
    ELSE <<x>> \o sorted

RECURSIVE sort_reverse(_, _)
sort_reverse(items, key) ==
    IF items = <<>> THEN <<>>
    ELSE InsertDesc(sort_reverse(SubSeq(items, 1, Len(items) - 1), key),
                    items[Len(items)], key)

(* seq[:n] *)
Take(seq, n) == SubSeq(seq, 1, IF n < Len(seq) THEN n ELSE Len(seq))

(* ------------------------------- inputs ------------------------------ *)
(* Dates are day numbers; the first evaluation date is day 0.  Four years
   of 365.25 days are a whole number of days, so maturities and coupon
   dates lie that far apart and every time that reaches npv is a whole
   number of years. *)
Leap == 4 * 365 + 1

(* models/bond.py:13-41: a Bond as the constructor leaves it, here without
   coupons.  sector is the attribute that data/bond_calculator.py:38
   reads. *)
Zero(nominal, price, maturity_date, volume_rub, sector) ==
    [price |-> price, nominal |-> nominal, coupon_rate |-> None,
     maturity_date |-> maturity_date, accrued_interest |-> 0,
     volume_rub |-> volume_rub, coupon_periods |-> <<>>, sector |-> sector,
     yield_to_maturity |-> None, years_to_maturity |-> None]

Gov == Zero(1600, 100, Leap, 1000, "government")
Corp == Zero(81, 16, Leap, 1000, "corporate")
Dear == Zero(100, 1601, Leap, 1000, "corporate")
Cheap == Zero(100, 1, Leap, 1000, "corporate")
Thin == Zero(1600, 100, Leap, 10, "corporate")
Matured == Zero(100, 95, -Leap, 1000, "corporate")
Far == Zero(100, 90, 8 * Leap, 1000, "government")
DueToday == [Zero(100, 95, 0, 1000, "corporate") EXCEPT !.coupon_rate = 8]
Coupon ==
    [Zero(100, 102, 2 * Leap, 1000, "corporate") EXCEPT
        !.coupon_rate = 8,
        !.accrued_interest = 2,
        !.coupon_periods = <<[coupondate |-> -Leap, value |-> 8],
                             [coupondate |-> None, value |-> 8],
                             [coupondate |-> Leap, value |-> 8],
                             [coupondate |-> 2 * Leap, value |-> 8]>>]
NoFace ==
    [Zero(0, 1, Leap, 1000, "corporate") EXCEPT
        !.coupon_rate = 8,
        !.coupon_periods = <<[coupondate |-> Leap, value |-> 16]>>]

FreshBonds ==
    {Gov, Corp, Dear, Cheap, Thin, Matured, Far, DueToday, Coupon, NoFace}

(* The evaluation dates of the model *)
Days == {d * Leap : d \in 0 .. MaxDays}

(* calculate_ytm reads the attributes the constructor set and neither of
   the two it left as None (helpers.py:23-73, 76-127), so on a bond that
   has been valued it returns what it returns on the bond as constructed.
   Valuation holds its results over the bonds and days of the model. *)
AsConstructed(bond) ==
    [bond EXCEPT !.yield_to_maturity = None, !.years_to_maturity = None]

Valuation == {<<b, d, calculate_ytm(b, d)>> : b \in FreshBonds, d \in Days}

valuation_of(bond, today) ==
    (CHOOSE v \in Valuation : v[1] = AsConstructed(bond) /\ v[2] = today)[3]

(* analyzers/bond_analyzer.py:35-42, a valid bond i whose calculate_ytm
   returned y, after the bonds before it: [bonds, valid_bonds (positions,
   in input order), ytm (per bond <<y>> for what calculate_ytm returned,
   <<>> when it was not called)] *)
annotate(before, i, y, years, settings) ==
    IF y = None \/ y < settings.min_yield
    THEN [before EXCEPT !.ytm = Append(@, <<y>>)]
    ELSE [bonds |-> [before.bonds EXCEPT ![i].yield_to_maturity = y,
                                         ![i].years_to_maturity = years],
          valid_bonds |-> Append(before.valid_bonds, i),
          ytm |-> Append(before.ytm, <<y>>)]

(* analyzers/bond_analyzer.py:29-42, the loop over the first i bonds *)
RECURSIVE analyze_loop(_, _, _, _)
analyze_loop(bonds, settings, today, i) ==
    IF i = 0 THEN [bonds |-> bonds, valid_bonds |-> <<>>, ytm |-> <<>>]
    ELSE IF ~is_valid_bond(bonds[i], settings, today)
    THEN [analyze_loop(bonds, settings, today, i - 1) EXCEPT
             !.ytm = Append(@, <<>>)]
    ELSE annotate(analyze_loop(bonds, settings, today, i - 1), i,
                  valuation_of(bonds[i], today),
                  years_fraction(today, bonds[i].maturity_date), settings)

rank_unsorted(done, top_n) ==
    done @@ [result |-> Take(done.valid_bonds, top_n)]

(* analyzers/bond_analyzer.py:44-49: sort by yield, descending, and keep
   the first top_n *)
rank(done, top_n) ==
    done @@
    [result |->
        Take(sort_reverse(done.valid_bonds,
                          [i \in DOMAIN done.bonds |->
                              done.bonds[i].yield_to_maturity]),
             top_n)]

(* analyzers/bond_analyzer.py:19-49: [bonds, valid_bonds, ytm, result] *)
analyze(bonds, settings, today) ==
    rank(analyze_loop(bonds, settings, today, Len(bonds)), settings.top_n)

(* data/bond_calculator.py:24-32, one bond: "TypeError" is the float <=
   None comparison of line 26 raising *)
filter_one_exclusive(calc, bond) ==
    IF bond.years_to_maturity = None THEN "TypeError"
    ELSE IF ~(/\ calc.min_years_to_maturity < bond.years_to_maturity
              /\ bond.years_to_maturity < calc.max_years_to_maturity)
    THEN "continue"
    ELSE IF \/ bond.yield_to_maturity = None
            \/ bond.yield_to_maturity <= calc.min_ytm_threshold
    THEN "continue"
    ELSE IF bond.price <= 0 \/ bond.price > 200 THEN "continue"
    ELSE "append"

filter_one(calc, bond) ==
    IF bond.years_to_maturity = None THEN "TypeError"
    ELSE IF ~(/\ calc.min_years_to_maturity <= bond.years_to_maturity
              /\ bond.years_to_maturity <= calc.max_years_to_maturity)
    THEN "continue"
    ELSE IF \/ bond.yield_to_maturity = None
            \/ bond.yield_to_maturity < calc.min_ytm_threshold
    THEN "continue"
    ELSE IF bond.price <= 0 \/ bond.price > 200 THEN "continue"
    ELSE "append"

(* data/bond_calculator.py:22-34: [raised, value]: the exception that
   ended the call ("" when it returned) and the kept positions *)
RECURSIVE filter_bonds_to(_, _, _)
filter_bonds_to(calc, bonds, i) ==
    IF i = 0 THEN [raised |-> "", value |-> <<>>]
    ELSE LET before == filter_bonds_to(calc, bonds, i - 1)
             r == filter_one(calc, bonds[i])
         IN  IF before.raised # "" THEN before
             ELSE IF r = "TypeError"
             THEN [raised |-> "TypeError", value |-> <<>>]
             ELSE IF r = "append"
             THEN [before EXCEPT !.value = Append(@, i)]
             ELSE before

filter_bonds(calc, bonds) == filter_bonds_to(calc, bonds, Len(bonds))

(* data/bond_calculator.py:36-40; the bonus 0.5 in rate units *)
score_bond_no_bonus(calc, bond) ==
    IF bond.yield_to_maturity = None THEN 0 ELSE bond.yield_to_maturity

score_bond(calc, bond) ==
    (IF bond.yield_to_maturity = None THEN 0 ELSE bond.yield_to_maturity)
    + (IF calc.prefer_government /\ bond.sector = "government"
       THEN RateScale \div 2 ELSE 0)

(* max(filtered, key): the first item of the largest key *)
RECURSIVE MaxLast(_, _)
MaxLast(items, key) ==
    IF Len(items) = 1 THEN items[1]
    ELSE LET best == MaxLast(SubSeq(items, 1, Len(items) - 1), key)
         IN  IF key[items[Len(items)]] >= key[best] THEN items[Len(items)]
             ELSE best

RECURSIVE MaxFirst(_, _)
MaxFirst(items, key) ==
    IF Len(items) = 1 THEN items[1]
    ELSE LET best == MaxFirst(SubSeq(items, 1, Len(items) - 1), key)
         IN  IF key[items[Len(items)]] > key[best] THEN items[Len(items)]
             ELSE best

(* data/bond_calculator.py:42-49 *)
find_best_bond(calc, bonds) ==
    LET filtered == filter_bonds(calc, bonds)
        key == [i \in DOMAIN bonds |-> score_bond(calc, bonds[i])]
    IN  IF filtered.raised # "" THEN [filtered EXCEPT !.value = None]
        ELSE IF filtered.value = <<>> THEN [raised |-> "", value |-> None]
        ELSE [raised |-> "", value |-> MaxFirst(filtered.value, key)]

(* data/bond_calculator.py:51-55 *)
get_top_bonds(calc, bonds, top_n) ==
    LET filtered == filter_bonds(calc, bonds)
        key == [i \in DOMAIN bonds |-> score_bond(calc, bonds[i])]
    IN  IF filtered.raised # "" THEN filtered
        ELSE [raised |-> "",
              value |-> Take(sort_reverse(filtered.value, key), top_n)]

(* ------------------------------- state -------------------------------- *)
(* The valuation and selection pipeline:
     bonds    the caller's list of Bond objects (a position is an object)
     date     datetime.today().date(), a day number
     op       the operation that ran last, "idle" between operations
     cfg      its configuration (analyzer settings or calculator fields)
     kept     analyze's valid_bonds / filter_bonds' filtered, as positions
     result   what the operation returned (positions)
     raised   the exception that ended the operation, "" when it returned
     ytms     what calculate_ytm returned for each bond in analyze
   One run of calculate_ytm, pass by pass:
     schedule, clean_price, y0 (the yield the price was computed from, or
     None), low, high, iter, pc, ytm
   The main window (gui/main_window.py):
     btn_fetch, btn_auto_update   whether the button is enabled
     auto_update_enabled          the attribute of that name
     update_timer                 whether the 30 s timer is active
     window_bonds                 len(self.bonds)
     worker                       the number of FetchBondsWorker objects
                                  made so far; the latest is self.worker
     running                      the workers whose run() has not emitted
     posted                       the signals workers have emitted, queued
                                  for the window's thread, oldest first *)
VARIABLES bonds, date, op, cfg, kept, result, raised, ytms,
          schedule, clean_price, y0, low, high, iter, pc, ytm,
          btn_fetch, btn_auto_update, auto_update_enabled, update_timer,
          window_bonds, worker, running, posted

pipeline == <<bonds, date, op, cfg, kept, result, raised, ytms>>
solver == <<schedule, clean_price, y0, low, high, iter, pc, ytm>>
window == <<btn_fetch, btn_auto_update, auto_update_enabled, update_timer,
            window_bonds, worker, running, posted>>
vars == <<pipeline, solver, window>>

PipelineIdle ==
    /\ bonds = <<>>
    /\ date = 0
    /\ op = "idle"
    /\ cfg = None
    /\ kept = <<>>
    /\ result = <<>>
    /\ raised = ""
    /\ ytms = <<>>

(* gui/main_window.py:89-112, 122-135: the window as constructed *)
WindowIdle ==
    /\ btn_fetch = TRUE
    /\ btn_auto_update = TRUE
    /\ auto_update_enabled = FALSE
    /\ update_timer = FALSE
    /\ window_bonds = 0
    /\ worker = 0
    /\ running = {}
    /\ posted = <<>>

SolverIdle ==
    /\ schedule = <<>>
    /\ clean_price = QInt(0)
    /\ y0 = None
    /\ low = LowBound
    /\ high = HighBound
    /\ iter = 0
    /\ pc = "idle"
    /\ ytm = None

(* -------------------------- solver, stepwise -------------------------- *)
(* Inputs of one run: a schedule of one or two events, and a clean price
   that is either the present value at a yield y0 of the grid or a round
   amount; or the schedule and clean price of a bond (helpers.py:81-88).
   The long-dated events (LongT years) come alone and priced from a
   yield. *)
Amounts == {1, 1000}
ShortTimes == {-Year, 0} \cup {t * Year : t \in 1 .. MaxT}
ShortEvents == [time : ShortTimes, amount : Amounts]
LongEvents == [time : {LongT * Year}, amount : Amounts]
ShortSchedules ==
    {<<e>> : e \in ShortEvents}
        \cup {<<c, e>> : c \in ShortEvents, e \in ShortEvents}
Schedules == ShortSchedules \cup {<<e>> : e \in LongEvents}
Rates == LowBound .. HighBound
Prices == {QInt(0), QInt(950)}

SolverInit ==
    /\ PipelineIdle
    /\ WindowIdle
    /\ \/ /\ schedule \in Schedules
          /\ y0 \in Rates
          /\ clean_price = npv(schedule, y0)
       \/ /\ schedule \in ShortSchedules
          /\ y0 = None
          /\ clean_price \in Prices
       \/ \E bond \in FreshBonds, d \in Days :
             /\ schedule = get_coupon_schedule(bond, d)
             /\ y0 = None
             /\ clean_price = QInt(clean_price_of(bond))
    /\ low = LowBound
    /\ high = HighBound
    /\ iter = 0
    /\ pc = "start"
    /\ ytm = None

(* helpers.py:81-111 *)
SolverStart ==
    /\ pc = "start"
    /\ IF \/ ~QPositive(clean_price)
          \/ schedule = <<>>
          \/ OutOfRange(clean_price, schedule)
       THEN pc' = "done"
       ELSE pc' = "loop"
    /\ UNCHANGED <<schedule, clean_price, y0, low, high, iter, ytm>>
    /\ UNCHANGED pipeline
    /\ UNCHANGED window

(* helpers.py:114-124 *)
SolverIterate ==
    /\ pc = "loop"
    /\ iter < MaxIterations
    /\ LET s == BisectStep(clean_price, schedule, low, high)
       IN  /\ low' = s.low
           /\ high' = s.high
           /\ ytm' = s.ytm
           /\ pc' = IF s.done THEN "done" ELSE "loop"
    /\ iter' = iter + 1
    /\ UNCHANGED <<schedule, clean_price, y0>>
    /\ UNCHANGED pipeline
    /\ UNCHANGED window

SolverExhaustedNone ==
    /\ pc = "loop"
    /\ iter = MaxIterations
    /\ ytm' = None
    /\ pc' = "done"
    /\ UNCHANGED <<schedule, clean_price, y0, low, high, iter>>
    /\ UNCHANGED pipeline
    /\ UNCHANGED window

(* helpers.py:127 *)
SolverExhausted ==
    /\ pc = "loop"
    /\ iter = MaxIterations
    /\ ytm' = (low + high) \div 2
    /\ pc' = "done"
    /\ UNCHANGED <<schedule, clean_price, y0, low, high, iter>>
    /\ UNCHANGED pipeline
    /\ UNCHANGED window

SolverNext == SolverStart \/ SolverIterate \/ SolverExhausted

SolverSpec == SolverInit /\ [][SolverNext]_vars

(* ------------------------------ pipeline ------------------------------ *)
(* models/bond.py:39-41, the fields "filled in later": a bond whose years
   to maturity were written on the given day, with a yield quoted for it
   (data/moex_api.py:115-116 YIELDTOMATURITY) or none, instead of the one
   analyze computes *)
FeedBond(bond, yield, day) ==
    [bond EXCEPT !.yield_to_maturity = yield,
                 !.years_to_maturity = years_fraction(day, bond.maturity_date)]

FeedYields == {RateScale \div 4, RateScale \div 2, (3 * RateScale) \div 4}

FeedBonds ==
    {FeedBond(Gov, y, 0) : y \in FeedYields \cup {None}}
        \cup {FeedBond(Corp, y, 0) : y \in FeedYields}
        \cup {FeedBond(b, (3 * RateScale) \div 4, 0) : b \in {Dear, Thin, Far}}

BondLists ==
    UNION {[1 .. n -> FreshBonds \cup FeedBonds] : n \in 1 .. MaxBonds}

(* config.py:31-37 ANALYSIS_SETTINGS, and settings that differ from it in
   one entry *)
ANALYSIS_SETTINGS ==
    [min_yield |-> -RateScale, max_maturity_years |-> 30 * Year,
     exclude_zero_coupon |-> FALSE, min_volume_rub |-> 0, top_n |-> 1]

Settings ==
    {ANALYSIS_SETTINGS,
     [ANALYSIS_SETTINGS EXCEPT !.min_yield = RateScale \div 2],
     [ANALYSIS_SETTINGS EXCEPT !.max_maturity_years = 4 * Year],
     [ANALYSIS_SETTINGS EXCEPT !.exclude_zero_coupon = TRUE],
     [ANALYSIS_SETTINGS EXCEPT !.min_volume_rub = 100],
     [ANALYSIS_SETTINGS EXCEPT !.top_n = MaxBonds]}

(* data/bond_calculator.py:9-20: the defaults of the constructor, and
   calculators that differ from them in one argument *)
BondCalculator ==
    [min_years_to_maturity |-> Year \div 2,
     max_years_to_maturity |-> 30 * Year,
     prefer_government |-> TRUE,
     min_ytm_threshold |-> 0]

Calculators ==
    {BondCalculator,
     [BondCalculator EXCEPT !.min_years_to_maturity = 0],
     [BondCalculator EXCEPT !.min_years_to_maturity = 4 * Year],
     [BondCalculator EXCEPT !.max_years_to_maturity = 4 * Year],
     [BondCalculator EXCEPT !.prefer_government = FALSE],
     [BondCalculator EXCEPT !.min_ytm_threshold = RateScale \div 4]}

TopNs == {1, MaxBonds}

Init ==
    /\ SolverIdle
    /\ WindowIdle
    /\ bonds \in BondLists
    /\ date = 0
    /\ op = "idle"
    /\ cfg = None
    /\ kept = <<>>
    /\ result = <<>>
    /\ raised = ""
    /\ ytms = <<>>


(* what analyze left behind: the bonds it wrote to and its lists *)
Analyzed(r) ==
    /\ bonds' = r.bonds
    /\ kept' = r.valid_bonds
    /\ result' = r.result
    /\ ytms' = r.ytm

(* main.py: BondAnalyzer(ANALYSIS_SETTINGS).analyze(bonds);
   analyzers/bond_analyzer.py:19-49 *)
Analyze(settings) ==
    /\ op = "idle"
    /\ Analyzed(analyze(bonds, settings, date))
    /\ raised' = ""
    /\ op' = "analyze"
    /\ cfg' = settings
    /\ UNCHANGED date
    /\ UNCHANGED solver
    /\ UNCHANGED window

FilterBondsInPlace(calc) ==
    /\ op = "idle"
    /\ LET r == filter_bonds(calc, bonds)
       IN  /\ kept' = r.value
           /\ result' = r.value
           /\ raised' = r.raised
           /\ bonds' = [k \in DOMAIN r.value |-> bonds[r.value[k]]]
    /\ op' = "filter_bonds"
    /\ cfg' = calc
    /\ UNCHANGED <<date, ytms>>
    /\ UNCHANGED solver
    /\ UNCHANGED window

(* data/bond_calculator.py:22-34 *)
FilterBonds(calc) ==
    /\ op = "idle"
    /\ LET r == filter_bonds(calc, bonds)
       IN  /\ kept' = r.value
           /\ result' = r.value
           /\ raised' = r.raised
    /\ op' = "filter_bonds"
    /\ cfg' = calc
    /\ UNCHANGED <<bonds, date, ytms>>
    /\ UNCHANGED solver
    /\ UNCHANGED window

(* data/bond_calculator.py:42-49 *)
FindBestBond(calc) ==
    /\ op = "idle"
    /\ kept' = filter_bonds(calc, bonds).value
    /\ LET r == find_best_bond(calc, bonds)
       IN  /\ result' = r.value
           /\ raised' = r.raised
    /\ op' = "find_best_bond"
    /\ cfg' = calc
    /\ UNCHANGED <<bonds, date, ytms>>
    /\ UNCHANGED solver
    /\ UNCHANGED window

(* data/bond_calculator.py:51-55; cfg keeps top_n beside the calculator *)
GetTopBonds(calc, top_n) ==
    /\ op = "idle"
    /\ kept' = filter_bonds(calc, bonds).value
    /\ LET r == get_top_bonds(calc, bonds, top_n)
       IN  /\ result' = r.value
           /\ raised' = r.raised
    /\ op' = "get_top_bonds"
    /\ cfg' = [calc |-> calc, top_n |-> top_n]
    /\ UNCHANGED <<bonds, date, ytms>>
    /\ UNCHANGED solver
    /\ UNCHANGED window

(* The caller has used what the operation returned (main.py prints it,
   gui/main_window.py apply_filters shows it); the bonds stay as they are. *)
Present ==
    /\ op # "idle"
    /\ op' = "idle"
    /\ cfg' = None
    /\ kept' = <<>>
    /\ result' = <<>>
    /\ raised' = ""
    /\ ytms' = <<>>
    /\ UNCHANGED <<bonds, date>>
    /\ UNCHANGED solver
    /\ UNCHANGED window

(* datetime.today().date() (helpers.py:30, 137) reads a later date: the
   calendar has moved on between two operations on the same bonds *)
NewDay ==
    /\ op = "idle"
    /\ date < MaxDays * Leap
    /\ date' = date + Leap
    /\ UNCHANGED <<bonds, op, cfg, kept, result, raised, ytms>>
    /\ UNCHANGED solver
    /\ UNCHANGED window

Next ==
    \/ \E settings \in Settings : Analyze(settings)
    \/ \E calc \in Calculators : FilterBonds(calc)
    \/ \E calc \in Calculators : FindBestBond(calc)
    \/ \E calc \in Calculators, top_n \in TopNs : GetTopBonds(calc, top_n)
    \/ Present
    \/ NewDay

Spec == Init /\ [][Next]_vars

(* Every schedule that reaches npv holds whole-year times. *)
WholeYearTimes ==
    \A i \in DOMAIN bonds :
        years_fraction(date, bonds[i].maturity_date) > 0 =>
            LET sch == get_coupon_schedule(bonds[i], date)
            IN  \A k \in DOMAIN sch : sch[k].time % Year = 0

(* ------------------------------ scheduler ----------------------------- *)
(* Inputs of one run of get_coupon_schedule and of is_zero_coupon: a bond
   with or without nominal, with no coupon rate, a rate of 0 or of 8
   percent, a maturity some days before or after the evaluation date, and
   up to MaxPeriods coupon periods of the feed in any order: dated today
   or later (3 and 4 days before a maturity of 365, and after it), paying
   40 or nothing, or malformed (no date, no value). *)
CouponDates == {0, 183, 361, 362, 365, 400}

CouponPeriods ==
    [coupondate : CouponDates, value : {40}]
        \cup {[coupondate |-> 365, value |-> 0],
              [coupondate |-> None, value |-> 40],
              [coupondate |-> 365, value |-> None]}

CouponPeriodLists ==
    UNION {[1 .. n -> CouponPeriods] : n \in 0 .. MaxPeriods}

SchedNominals == {1000, 0}
SchedRates == {None, 0, 8}
SchedMaturities == {-10, 0, 100, 183, 365, 550}
SchedDays == {0, 10}

SchedBonds ==
    {[Zero(nominal, 950, maturity_date, 1000, "corporate") EXCEPT
         !.coupon_rate = coupon_rate, !.coupon_periods = coupon_periods] :
        nominal \in SchedNominals, coupon_rate \in SchedRates,
        maturity_date \in SchedMaturities,
        coupon_periods \in CouponPeriodLists}

SchedInit ==
    /\ SolverIdle
    /\ WindowIdle
    /\ bonds \in {<<bond>> : bond \in SchedBonds}
    /\ date \in SchedDays
    /\ op = "idle"
    /\ cfg = None
    /\ kept = <<>>
    /\ result = <<>>
    /\ raised = ""
    /\ ytms = <<>>

(* helpers.py:29-57: schedule holds the coupon events *)
CollectCoupons ==
    /\ op = "idle"
    /\ schedule' = coupon_events(bonds[1], date)
    /\ op' = "coupons"
    /\ UNCHANGED <<bonds, date, cfg, kept, result, raised, ytms>>
    /\ UNCHANGED <<clean_price, y0, low, high, iter, pc, ytm>>
    /\ UNCHANGED window

(* helpers.py:59-73: the redemption is added and the schedule returned *)
AddRedemption ==
    /\ op = "coupons"
    /\ schedule' = add_redemption(schedule,
                       years_fraction(date, bonds[1].maturity_date),
                       bonds[1].nominal)
    /\ op' = "get_coupon_schedule"
    /\ UNCHANGED <<bonds, date, cfg, kept, result, raised, ytms>>
    /\ UNCHANGED <<clean_price, y0, low, high, iter, pc, ytm>>
    /\ UNCHANGED window

(* models/bond.py:48-53: result holds what the property returned *)
IsZeroCoupon ==
    /\ op = "idle"
    /\ result' = <<is_zero_coupon(bonds[1])>>
    /\ op' = "is_zero_coupon"
    /\ UNCHANGED <<bonds, date, cfg, kept, raised, ytms>>
    /\ UNCHANGED solver
    /\ UNCHANGED window

SchedNext == CollectCoupons \/ AddRedemption \/ IsZeroCoupon

SchedSpec == SchedInit /\ [][SchedNext]_vars

(* ----------------------------- main window ---------------------------- *)
(* The most FetchBondsWorker objects one run of the window makes *)
MaxFetches == 4

(* len(bonds) of the list a worker emits with `finished` *)
Loads == {0, 2}

WindowInit ==
    /\ PipelineIdle
    /\ SolverIdle
    /\ WindowIdle

(* gui/main_window.py:218-227 fetch_bonds *)
fetch_bonds ==
    /\ btn_fetch' = FALSE
    /\ btn_auto_update' = FALSE
    /\ worker' = worker + 1
    /\ running' = running \cup {worker + 1}
    /\ UNCHANGED <<auto_update_enabled, update_timer, window_bonds, posted>>

(* btn_fetch.clicked (line 131): a disabled button emits no click *)
ClickFetch ==
    /\ btn_fetch
    /\ worker < MaxFetches
    /\ fetch_bonds
    /\ UNCHANGED <<pipeline, solver>>

(* btn_auto_update.clicked (line 135), gui/main_window.py:393-402; the
   button is checkable and its checked state is auto_update_enabled *)
ToggleAutoUpdate ==
    /\ btn_auto_update
    /\ auto_update_enabled' = ~auto_update_enabled
    /\ update_timer' = ~auto_update_enabled
    /\ UNCHANGED <<btn_fetch, btn_auto_update, window_bonds, worker, running,
                   posted>>
    /\ UNCHANGED <<pipeline, solver>>

(* update_timer.timeout (line 112), gui/main_window.py:404-408; trading is
   what is_trading_now() returns *)
AutoUpdateIfTrading(trading) ==
    /\ update_timer
    /\ worker < MaxFetches
    /\ IF ~auto_update_enabled \/ window_bonds = 0 \/ ~trading
       THEN UNCHANGED window
       ELSE fetch_bonds
    /\ UNCHANGED <<pipeline, solver>>

(* gui/main_window.py:27-33 FetchBondsWorker.run in its own thread: it
   emits finished(bonds) or error(str); the signal is queued for the
   window's thread *)
WorkerFinished(w, load) ==
    /\ w \in running
    /\ running' = running \ {w}
    /\ posted' = Append(posted, [worker |-> w, signal |-> "finished",
                                 bonds |-> load])
    /\ UNCHANGED <<btn_fetch, btn_auto_update, auto_update_enabled,
                   update_timer, window_bonds, worker>>
    /\ UNCHANGED <<pipeline, solver>>

WorkerError(w) ==
    /\ w \in running
    /\ running' = running \ {w}
    /\ posted' = Append(posted, [worker |-> w, signal |-> "error",
                                 bonds |-> 0])
    /\ UNCHANGED <<btn_fetch, btn_auto_update, auto_update_enabled,
                   update_timer, window_bonds, worker>>
    /\ UNCHANGED <<pipeline, solver>>

(* gui/main_window.py:229-238 on_bonds_loaded, the slot of the oldest
   queued signal; the table, labels and status bar are not part of the
   state *)
OnBondsLoaded ==
    /\ posted # <<>>
    /\ Head(posted).signal = "finished"
    /\ window_bonds' = Head(posted).bonds
    /\ btn_fetch' = TRUE
    /\ btn_auto_update' = TRUE
    /\ posted' = Tail(posted)
    /\ UNCHANGED <<auto_update_enabled, update_timer, worker, running>>
    /\ UNCHANGED <<pipeline, solver>>

(* gui/main_window.py:240-245 on_fetch_error *)
OnFetchError ==
    /\ posted # <<>>
    /\ Head(posted).signal = "error"
    /\ btn_fetch' = TRUE
    /\ btn_auto_update' = TRUE
    /\ posted' = Tail(posted)
    /\ UNCHANGED <<auto_update_enabled, update_timer, window_bonds, worker,
                   running>>
    /\ UNCHANGED <<pipeline, solver>>

WindowNext ==
    \/ ClickFetch
    \/ ToggleAutoUpdate
    \/ \E trading \in BOOLEAN : AutoUpdateIfTrading(trading)
    \/ \E w \in 1 .. MaxFetches, load \in Loads : WorkerFinished(w, load)
    \/ \E w \in 1 .. MaxFetches : WorkerError(w)
    \/ OnBondsLoaded
    \/ OnFetchError

WindowSpec == WindowInit /\ [][WindowNext]_vars

(* ------------------------------ properties ---------------------------- *)
InSeq(x, seq) == \E k \in DOMAIN seq : seq[k] = x

PositiveAmounts(flows) == \A k \in DOMAIN flows : flows[k].amount > 0

(* the clean price of the bond lies outside [NPV(high), NPV(low)] *)
AboveLowBoundValue(bond, day) ==
    QLess(npv(get_coupon_schedule(bond, day), LowBound),
          QInt(clean_price_of(bond)))

BelowHighBoundValue(bond, day) ==
    QLess(QInt(clean_price_of(bond)),
          npv(get_coupon_schedule(bond, day), HighBound))

(* for each bond as constructed and each day, whether the clean price lies
   outside [NPV(high), NPV(low)] *)
Bracketing ==
    {<<b, d, AboveLowBoundValue(b, d) \/ BelowHighBoundValue(b, d)>> :
        b \in FreshBonds, d \in Days}

(* C1: whenever analyze calls calculate_ytm on a bond whose clean price is
   greater than the present value at the low bound or less than the
   present value at the high bound, calculate_ytm returns None and no
   number, analyze does not write the bond's yield field (it stays as it
   was, None on a bond as constructed), and the bond is not among the
   valid bonds. *)
C1_OutOfRangeIsNone ==
    [][op' = "analyze" =>
          \A i \in DOMAIN bonds :
              (/\ ytms'[i] # <<>>
               /\ <<AsConstructed(bonds[i]), date, TRUE>> \in Bracketing)
                  => /\ ytms'[i] = <<None>>
                     /\ bonds'[i].yield_to_maturity
                            = bonds[i].yield_to_maturity
                     /\ ~InSeq(i, kept')]_vars

(* analyze has met a bond as constructed whose price is below the present
   value at the high bound, and one whose price is above the present value
   at the low bound would do as well *)
C1_Witness ==
    /\ op = "analyze"
    /\ \E i \in DOMAIN bonds :
          /\ ytms[i] = <<None>>
          /\ bonds[i].yield_to_maturity = None
          /\ BelowHighBoundValue(bonds[i], date)

(* a run of calculate_ytm that has returned from the tolerance test of
   line 118, on a price made from the yield y0 *)
RoundTripDone ==
    /\ pc = "done"
    /\ iter > 0
    /\ iter < MaxIterations
    /\ PositiveAmounts(schedule)
    /\ \A k \in DOMAIN schedule : schedule[k].time > 0

WithinTolerance(y, z) == Abs(y - z) * ToleranceInv < RateScale

(* C2: round trip: for a schedule with positive amounts paid in the future
   and a yield y0 of the solver domain, calculate_ytm on the clean price
   NPV(y0) returns a yield within 1e-6 of y0. *)
C2_RoundTrip ==
    (RoundTripDone /\ y0 # None) =>
        (ytm # None /\ WithinTolerance(ytm, y0))

(* C3: for a zero-coupon bond, the single event (years, face), whose clean
   price is face / (1 + y0) ^ years, the closed form
   (face / clean_price) ^ (1 / years) - 1 is y0, in the solver domain, and
   the yield calculate_ytm returns agrees with it within 1e-6. *)
C3_ZeroCouponClosedForm ==
    (RoundTripDone /\ Len(schedule) = 1 /\ y0 \in Rates) =>
        (ytm \in Rates /\ WithinTolerance(y0, ytm))

(* rates above -1, up to 3.0 *)
NpvRates == (1 - RateScale) .. (3 * RateScale)

StrictlyDecreasing(flows) ==
    \A r \in NpvRates :
        (r + 1) \in NpvRates => QLess(npv(flows, r + 1), npv(flows, r))

(* a schedule get_coupon_schedule gives for a bond on some day *)
Produced(flows) ==
    \E bond \in FreshBonds, d \in Days : flows = get_coupon_schedule(bond, d)

(* calculate_ytm has evaluated npv on the schedule (lines 105-106) *)
NpvApplied == pc # "start" /\ pc # "idle" /\ iter = 0

(* C4, as stated: for every schedule of the scheduler with positive
   amounts, event times of 0 included, npv is strictly decreasing in the
   rate over the rates above -1. *)
C4_AsStated ==
    (/\ NpvApplied
     /\ Produced(schedule)
     /\ PositiveAmounts(schedule)
     /\ \A k \in DOMAIN schedule : schedule[k].time >= 0)
        => StrictlyDecreasing(schedule)

(* C4, amended: for every schedule with positive amounts whose event
   times are all >= 0 and not all 0, npv is strictly decreasing in the
   rate over the rates above -1; when all event times are 0 it is the
   same at every rate. *)
C4_NpvDecreasing ==
    (/\ NpvApplied
     /\ schedule # <<>>
     /\ PositiveAmounts(schedule)
     /\ \A k \in DOMAIN schedule : schedule[k].time >= 0)
        => IF \E k \in DOMAIN schedule : schedule[k].time > 0
           THEN StrictlyDecreasing(schedule)
           ELSE \A r \in NpvRates :
                   QEq(npv(schedule, r), npv(schedule, LowBound))

(* npv has been applied to a schedule that pays now and later *)
C4_Witness ==
    /\ NpvApplied
    /\ PositiveAmounts(schedule)
    /\ \E k \in DOMAIN schedule : schedule[k].time = 0
    /\ \E k \in DOMAIN schedule : schedule[k].time > 0

(* C5: a bond whose maturity date is the evaluation date or earlier is
   not among the bonds kept by either screening path (the valid bonds of
   analyze; the bonds filter_bonds keeps, by itself or inside
   find_best_bond and get_top_bonds), whatever the settings and whatever
   min_years_to_maturity and max_years_to_maturity. *)
C5_MaturedExcluded ==
    \A i \in DOMAIN bonds :
        bonds[i].maturity_date <= date => ~InSeq(i, kept)

ScreeningOps == {"filter_bonds", "find_best_bond", "get_top_bonds"}

(* the calculator of the operation that ran *)
CalcOf == IF op = "get_top_bonds" THEN cfg.calc ELSE cfg

(* the criteria of filter_bonds, read with inclusive bounds *)
MeetsCalculator(bond, calc) ==
    /\ bond.years_to_maturity # None
    /\ bond.yield_to_maturity # None
    /\ calc.min_years_to_maturity <= bond.years_to_maturity
    /\ bond.years_to_maturity <= calc.max_years_to_maturity
    /\ bond.yield_to_maturity >= calc.min_ytm_threshold
    /\ bond.price > 0
    /\ bond.price <= 200

OnCalculatorBound(bond, calc) ==
    \/ bond.years_to_maturity = calc.max_years_to_maturity
    \/ bond.years_to_maturity = calc.min_years_to_maturity
    \/ bond.yield_to_maturity = calc.min_ytm_threshold

(* the criteria of is_valid_bond other than the upper bound on maturity *)
MeetsOtherSettings(bond, settings, day) ==
    /\ years_fraction(day, bond.maturity_date) > 0
    /\ ~(settings.exclude_zero_coupon /\ is_zero_coupon(bond))
    /\ bond.volume_rub >= settings.min_volume_rub

(* C6: screening bounds are inclusive.  filter_bonds keeps a bond that
   meets its criteria with years to maturity exactly max_years or exactly
   min_years, or yield exactly the threshold; is_valid_bond accepts a bond
   whose years to maturity are exactly max_maturity_years, and analyze
   keeps a bond whose computed yield is exactly min_yield. *)
C6_InclusiveBounds ==
    /\ (op \in ScreeningOps /\ raised = "") =>
          \A i \in DOMAIN bonds :
              (/\ MeetsCalculator(bonds[i], CalcOf)
               /\ OnCalculatorBound(bonds[i], CalcOf)) => InSeq(i, kept)
    /\ op = "analyze" =>
          \A i \in DOMAIN bonds :
              /\ (/\ MeetsOtherSettings(bonds[i], cfg, date)
                  /\ years_fraction(date, bonds[i].maturity_date)
                         = cfg.max_maturity_years) => ytms[i] # <<>>
              /\ ytms[i] = <<cfg.min_yield>> => InSeq(i, kept)

(* filter_bonds has kept a bond whose years to maturity are exactly
   max_years_to_maturity *)
C6_Witness ==
    /\ op = "filter_bonds"
    /\ raised = ""
    /\ \E k \in DOMAIN kept :
          bonds[kept[k]].years_to_maturity = cfg.max_years_to_maturity

(* C7: filter_bonds never keeps a bond whose trade volume is below a
   configured min_volume threshold (one of the four rules of the
   screener), nor one whose price is outside the range, and it keeps the
   bonds in input order. *)
C7_FourRules ==
    (op = "filter_bonds" /\ raised = "") =>
        /\ \A k \in DOMAIN kept, s \in Settings :
              /\ bonds[kept[k]].volume_rub >= s.min_volume_rub
              /\ bonds[kept[k]].price > 0
              /\ bonds[kept[k]].price <= 200
        /\ \A k, l \in DOMAIN kept : k < l => kept[k] < kept[l]

(* the bond is in what the operation returned *)
Returned(i) ==
    IF op = "find_best_bond" THEN result = i ELSE InSeq(i, result)

(* C8: a bond whose yield to maturity is None and cannot be solved is in
   the output of none of filter_bonds, find_best_bond, get_top_bonds and
   analyze, and the operation does not raise. *)
C8_NullYieldExcluded ==
    op # "idle" =>
        \A i \in DOMAIN bonds :
            (/\ bonds[i].yield_to_maturity = None
             /\ valuation_of(bonds[i], date) = None)
                => (raised = "" /\ ~Returned(i))

(* Score = yield to maturity, plus 0.5 for a government bond when the
   calculator prefers government bonds *)
Score(i) ==
    IF cfg.calc.prefer_government /\ bonds[i].sector = "government"
    THEN bonds[i].yield_to_maturity + RateScale \div 2
    ELSE bonds[i].yield_to_maturity

(* C9: get_top_bonds returns min(top_n, number of screened bonds) bonds,
   each a screened bond and none twice, in non-increasing order of Score,
   and no screened bond it omits has a strictly higher Score than one it
   returns. *)
C9_TopBondsByScore ==
    (op = "get_top_bonds" /\ raised = "") =>
        /\ Len(result) = IF cfg.top_n < Len(kept) THEN cfg.top_n
                         ELSE Len(kept)
        /\ \A k \in DOMAIN result : InSeq(result[k], kept)
        /\ \A k, l \in DOMAIN result :
              k < l => /\ result[k] # result[l]
                       /\ Score(result[k]) >= Score(result[l])
        /\ \A j \in DOMAIN kept, k \in DOMAIN result :
              ~InSeq(kept[j], result) => Score(kept[j]) <= Score(result[k])

(* get_top_bonds has put a government bond before a bond of another
   sector with a higher yield, and has omitted a screened bond *)
C9_Witness ==
    /\ op = "get_top_bonds"
    /\ raised = ""
    /\ Len(result) < Len(kept)
    /\ \E j \in DOMAIN kept :
          /\ ~InSeq(kept[j], result)
          /\ bonds[result[1]].sector = "government"
          /\ bonds[kept[j]].sector # "government"
          /\ bonds[kept[j]].yield_to_maturity
                 > bonds[result[1]].yield_to_maturity

(* C10: ranking is stable.  Of two bonds with the same Score in
   get_top_bonds, or the same yield in analyze, the one that came first
   in the input is first in the output: it precedes the other when both
   are returned, and it is the one returned when only one is. *)
C10_StableRanking ==
    /\ (op = "get_top_bonds" /\ raised = "") =>
          /\ \A k, l \in DOMAIN result :
                (k < l /\ Score(result[k]) = Score(result[l]))
                    => result[k] < result[l]
          /\ \A j \in DOMAIN kept, k \in DOMAIN result :
                (~InSeq(kept[j], result)
                    /\ Score(kept[j]) = Score(result[k]))
                    => result[k] < kept[j]
    /\ op = "analyze" =>
          /\ \A k, l \in DOMAIN result :
                (k < l /\ bonds[result[k]].yield_to_maturity
                              = bonds[result[l]].yield_to_maturity)
                    => result[k] < result[l]
          /\ \A j \in DOMAIN kept, k \in DOMAIN result :
                (~InSeq(kept[j], result)
                    /\ bonds[kept[j]].yield_to_maturity
                           = bonds[result[k]].yield_to_maturity)
                    => result[k] < kept[j]

(* get_top_bonds has returned two bonds with the same Score, the second
   one of them a government bond that the bonus lifted to the Score of
   the first *)
C10_Witness ==
    /\ op = "get_top_bonds"
    /\ raised = ""
    /\ \E k, l \in DOMAIN result :
          /\ k < l
          /\ Score(result[k]) = Score(result[l])
          /\ bonds[result[k]].sector # bonds[result[l]].sector

(* Score of bond i under a calculator *)
ScoreUnder(calc, i) ==
    IF calc.prefer_government /\ bonds[i].sector = "government"
    THEN bonds[i].yield_to_maturity + RateScale \div 2
    ELSE bonds[i].yield_to_maturity

(* C11: find_best_bond returns None exactly when no bond passes the
   screening; otherwise it returns the bond that get_top_bonds(bonds, n)
   puts first, for every n >= 1 of the model: a screened bond of the
   highest Score, and among several of that Score the one that came
   first in the input. *)
C11_BestIsFirstOfRanking ==
    (op = "find_best_bond" /\ raised = "") =>
        /\ (result = None) <=> (kept = <<>>)
        /\ kept # <<>> =>
              /\ InSeq(result, kept)
              /\ \A n \in TopNs :
                    result = get_top_bonds(cfg, bonds, n).value[1]
              /\ \A j \in DOMAIN kept :
                    /\ ScoreUnder(cfg, kept[j]) <= ScoreUnder(cfg, result)
                    /\ ScoreUnder(cfg, kept[j]) = ScoreUnder(cfg, result)
                           => result <= kept[j]

(* find_best_bond has chosen among two screened bonds that tie for the
   highest Score *)
C11_Witness ==
    /\ op = "find_best_bond"
    /\ raised = ""
    /\ \E j \in DOMAIN kept :
          /\ kept[j] # result
          /\ ScoreUnder(cfg, kept[j]) = ScoreUnder(cfg, result)

(* get_coupon_schedule has returned; what it was called on *)
Scheduled == op = "get_coupon_schedule"

MaturityTime == years_fraction(date, bonds[1].maturity_date)

Ascending(flows) ==
    \A k, l \in DOMAIN flows : k < l => flows[k].time <= flows[l].time

(* maturity strictly after today, nominal > 0, coupon rate absent or >= 0 *)
ValidForScheduling(bond, day) ==
    /\ bond.maturity_date > day
    /\ bond.nominal > 0
    /\ bond.coupon_rate = None \/ bond.coupon_rate >= 0

(* a valid bond whose coupon periods all carry a date and a value and are
   dated up to the maturity *)
PlainBond(bond, day) ==
    /\ ValidForScheduling(bond, day)
    /\ \A j \in DOMAIN bond.coupon_periods :
          /\ bond.coupon_periods[j].coupondate # None
          /\ bond.coupon_periods[j].value # None
          /\ bond.coupon_periods[j].coupondate <= bond.maturity_date

(* C12: whatever the order in which the coupon periods are supplied,
   get_coupon_schedule returns a non-empty schedule whose times are in
   ascending order and whose last event holds the redemption of the
   nominal, at the maturity time or within 0.01 year of it.  Stated for
   valid bonds with well-formed coupon periods dated up to the maturity. *)
C12_ScheduleAscending ==
    (Scheduled /\ PlainBond(bonds[1], date)) =>
        /\ schedule # <<>>
        /\ Ascending(schedule)
        /\ schedule[Len(schedule)].amount >= bonds[1].nominal
        /\ Abs(MaturityTime - schedule[Len(schedule)].time) * 100 <= Year

(* C13: in the schedule of a valid bond every event has a time >= 0 and
   an amount > 0, and a coupon period dated today or earlier has no event
   in it.  Stated for well-formed coupon periods dated up to the maturity. *)
C13_EventsPositive ==
    (Scheduled /\ PlainBond(bonds[1], date)) =>
        /\ \A k \in DOMAIN schedule :
              schedule[k].time >= 0 /\ schedule[k].amount > 0
        /\ \A j \in DOMAIN bonds[1].coupon_periods :
              LET cp == bonds[1].coupon_periods[j]
              IN  (cp.coupondate # None /\ cp.coupondate <= date) =>
                      \A k \in DOMAIN schedule :
                          schedule[k].time
                              # years_fraction(date, cp.coupondate)

RECURSIVE SumAmounts(_)
SumAmounts(flows) ==
    IF flows = <<>> THEN 0 ELSE Head(flows).amount + SumAmounts(Tail(flows))

(* C14: the step that adds the redemption to the coupon events.  When the
   maturity time is within 0.01 year of the time of the last coupon event,
   the nominal is added to the amount of that event; otherwise (also when
   there is no coupon event) one event (maturity time, nominal) is
   appended.  Every other event is as it was, and the amounts grow by the
   nominal, once. *)
C14_Redemption ==
    [][(op = "coupons" /\ op' = "get_coupon_schedule") =>
          LET n == Len(schedule)
              face == bonds[1].nominal
          IN  /\ \A k \in 1 .. n - 1 : schedule'[k] = schedule[k]
              /\ SumAmounts(schedule') = SumAmounts(schedule) + face
              /\ IF n > 0 /\ Abs(MaturityTime - schedule[n].time) * 100 <= Year
                 THEN /\ Len(schedule') = n
                      /\ schedule'[n].time = schedule[n].time
                      /\ schedule'[n].amount = schedule[n].amount + face
                 ELSE /\ Len(schedule') = n + 1
                      /\ \A k \in 1 .. n : schedule'[k] = schedule[k]
                      /\ schedule'[n + 1].time = MaturityTime
                      /\ schedule'[n + 1].amount = face]_vars

(* the nominal has been added to a last coupon that is paid near the
   maturity date, not on it *)
C14_Witness ==
    /\ Scheduled
    /\ bonds[1].nominal > 0
    /\ schedule[Len(schedule)].time # MaturityTime
    /\ schedule[Len(schedule)].amount > bonds[1].nominal

(* C15: is_zero_coupon is true if and only if the coupon rate is 0 or
   absent and the bond has no explicit coupon periods.  Stated for valid
   bonds with well-formed coupon periods. *)
C15_ZeroCouponIff ==
    (op = "is_zero_coupon" /\ PlainBond(bonds[1], date)) =>
        result = <<(/\ bonds[1].coupon_rate \in {None, 0}
                    /\ bonds[1].coupon_periods = <<>>)>>

(* C16: for a bond that is_zero_coupon reports as zero-coupon,
   get_coupon_schedule returns the single event (years to maturity,
   nominal).  Stated for valid bonds with well-formed coupon periods. *)
C16_ZeroCouponSingleEvent ==
    (Scheduled /\ PlainBond(bonds[1], date) /\ is_zero_coupon(bonds[1])) =>
        schedule = <<[time |-> MaturityTime, amount |-> bonds[1].nominal]>>

(* the clean price is positive and lies between the present values at the
   two ends of the search range (helpers.py:82, 108) *)
PositiveAndBracketed ==
    /\ QPositive(clean_price)
    /\ schedule # <<>>
    /\ ~OutOfRange(clean_price, schedule)

(* a pass of calculate_ytm that counts towards the cap: the loop either
   uses up one of its max_iterations passes or, with none left, returns;
   before the loop nothing is counted *)
CountedPass ==
    \/ pc = "start" /\ pc' \in {"loop", "done"} /\ iter' = iter
    \/ pc = "loop" /\ iter < MaxIterations /\ iter' = iter + 1
          /\ pc' \in {"loop", "done"}
    \/ pc = "loop" /\ iter = MaxIterations /\ iter' = iter /\ pc' = "done"

(* C17: with a positive, bracketed clean price calculate_ytm finishes after
   at most max_iterations passes and returns a number, never None: the
   midpoint whose present value is within the tolerance of the price or,
   at the cap, the midpoint of the final bracket.  Termination is bounded:
   the pass counter never exceeds max_iterations, every step is a counted
   pass, and a run in the loop always has a pass or the return to take. *)
C17_SolverTerminates ==
    /\ [](iter <= MaxIterations)
    /\ [][CountedPass]_vars
    /\ []((pc = "done" /\ PositiveAndBracketed) =>
            /\ ytm # None
            /\ ytm = (low + high) \div 2
            /\ \/ iter = MaxIterations
               \/ QWithin(npv(schedule, ytm), clean_price, ToleranceInv))

C17_Witness ==
    /\ pc = "done"
    /\ PositiveAndBracketed
    /\ iter = MaxIterations
    /\ ytm # None
    /\ ~QWithin(npv(schedule, ytm), clean_price, ToleranceInv)

(* C18: whenever filter_bonds (alone or inside find_best_bond and
   get_top_bonds) reads a bond's years_to_maturity, the value is the year
   fraction between today and the bond's maturity date, also when the date
   has moved on since the value was written. *)
C18_YearsNeverStale ==
    (op \in ScreeningOps /\ raised = "") =>
        \A i \in DOMAIN bonds :
            bonds[i].years_to_maturity # None =>
                bonds[i].years_to_maturity
                    = years_fraction(date, bonds[i].maturity_date)

(* C19: for a bond whose nominal is <= 0, with or without coupons,
   calculate_ytm returns None: analyze never gets a numeric yield for
   it. *)
C19_NoYieldWithoutFace ==
    op = "analyze" =>
        \A i \in DOMAIN bonds :
            (bonds[i].nominal <= 0 /\ ytms[i] # <<>>) => ytms[i] = <<None>>

(* no explicit coupon period is usable: each lacks its date or its value
   or is dated today or earlier; and the coupon rate is positive *)
ApproximatedCase(bond, day) ==
    /\ bond.coupon_rate # None
    /\ bond.coupon_rate > 0
    /\ \A j \in DOMAIN bond.coupon_periods :
          \/ bond.coupon_periods[j].coupondate = None
          \/ bond.coupon_periods[j].value = None
          \/ bond.coupon_periods[j].coupondate <= day

(* C20: with no usable explicit period and a positive coupon rate the
   coupons are semiannual: floor(2 x years to maturity) events, the k-th at
   k/2 years, none later than the maturity, each of amount
   (coupon_rate / 100 x nominal) / 2; with less than half a year to
   maturity there is no coupon event and the schedule is the redemption
   alone. *)
C20_SemiannualApproximation ==
    ApproximatedCase(bonds[1], date) =>
        LET n == IF 2 * MaturityTime < Year THEN 0
                 ELSE (2 * MaturityTime) \div Year
        IN  /\ op = "coupons" =>
                /\ Len(schedule) = n
                /\ \A k \in 1 .. n :
                      /\ 2 * schedule[k].time = k * Year
                      /\ schedule[k].time <= MaturityTime
                      /\ 200 * schedule[k].amount
                            = bonds[1].coupon_rate * bonds[1].nominal
            /\ (Scheduled /\ n = 0) =>
                schedule = <<[time |-> MaturityTime,
                              amount |-> bonds[1].nominal]>>

C20_Witness ==
    /\ op = "coupons"
    /\ ApproximatedCase(bonds[1], date)
    /\ bonds[1].coupon_periods # <<>>
    /\ bonds[1].nominal > 0
    /\ Len(schedule) >= 2

(* bond i went through analyze's checks: valid on the day, and
   calculate_ytm returned a yield that is not None and not below
   min_yield *)
PassedAnalysis(i) ==
    /\ is_valid_bond(bonds[i], cfg, date)
    /\ ytms[i] # <<>>
    /\ ytms[i] # <<None>>
    /\ ytms[i][1] >= cfg.min_yield

(* C21: analyze returns at most top_n bonds; each passes is_valid_bond and
   has a yield that is not None and at least min_yield; they come in
   descending order of yield; no bond that passed the checks and was left
   out has a strictly higher yield than a returned one; and every returned
   bond has yield_to_maturity and years_to_maturity set. *)
C21_AnalyzeTopN ==
    op = "analyze" =>
        /\ Len(result) <= cfg.top_n
        /\ \A k \in DOMAIN result :
              /\ PassedAnalysis(result[k])
              /\ bonds[result[k]].yield_to_maturity = ytms[result[k]][1]
              /\ bonds[result[k]].years_to_maturity
                    = years_fraction(date, bonds[result[k]].maturity_date)
        /\ \A k \in DOMAIN result : \A l \in DOMAIN result :
              k < l => bonds[result[k]].yield_to_maturity
                         >= bonds[result[l]].yield_to_maturity
        /\ \A i \in DOMAIN bonds :
              (PassedAnalysis(i) /\ ~InSeq(i, result)) =>
                  \A k \in DOMAIN result :
                      ytms[i][1] <= bonds[result[k]].yield_to_maturity

(* the later bond of the list has the higher yield and is the one kept *)
C21_Witness ==
    /\ op = "analyze"
    /\ cfg.top_n = 1
    /\ kept = <<1, 2>>
    /\ result = <<2>>
    /\ PassedAnalysis(1)
    /\ ytms[1][1] < ytms[2][1]

(* C22: filter_bonds, find_best_bond and get_top_bonds (score_bond inside
   them) change no field of any bond and leave the caller's list as it
   was, order and length; calculate_ytm and get_coupon_schedule, called by
   analyze on every valid bond, leave every attribute the constructor set,
   the coupon_periods entries among them, unchanged: after analyze a bond
   differs from before in yield_to_maturity and years_to_maturity at
   most, the two fields analyze itself writes. *)
C22_ReadOnly ==
    [][/\ op' \in ScreeningOps => bonds' = bonds
       /\ op' = "analyze" =>
            /\ Len(bonds') = Len(bonds)
            /\ \A i \in DOMAIN bonds :
                  AsConstructed(bonds'[i]) = AsConstructed(bonds[i])]_vars

(* filter_bonds dropped one bond of the list and kept another *)
C22_Witness ==
    /\ op = "filter_bonds"
    /\ raised = ""
    /\ kept # <<>>
    /\ Len(kept) < Len(bonds)

(* at the start of a pass of the loop: -0.5 <= low < high <= 2.0 and
   NPV(low) >= clean price >= NPV(high) *)
BracketHolds ==
    pc = "loop" =>
        /\ LowBound <= low
        /\ low < high
        /\ high <= HighBound
        /\ ~QLess(npv(schedule, low), clean_price)
        /\ ~QLess(clean_price, npv(schedule, high))

(* every yield that is returned lies in [-0.5, 2.0] *)
YieldInDomain ==
    (pc = "done" /\ ytm # None) => (LowBound <= ytm /\ ytm <= HighBound)

(* a pass that does not return replaces one end of the bracket by the
   midpoint: the new width is half the old one, up to the rounding of the
   midpoint to a rate of the grid *)
HalvedBy(lo, hi, newlo, newhi) ==
    /\ lo <= newlo
    /\ newhi <= hi
    /\ 2 * (newhi - newlo) <= (hi - lo) + 1

(* C23, as stated: the bracket invariant holds at the start of every pass,
   every pass that does not return halves the width of the bracket, which
   so gets strictly narrower, and every yield returned lies in
   [-0.5, 2.0]. *)
C23_AsStated ==
    /\ []BracketHolds
    /\ []YieldInDomain
    /\ [][(pc = "loop" /\ pc' = "loop") =>
            /\ HalvedBy(low, high, low', high')
            /\ high' - low' < high - low]_vars

(* C23, amended: the bracket invariant holds at the start of every pass
   and every yield returned lies in [-0.5, 2.0]; a pass that does not
   return halves the width of the bracket as long as the bracket is wider
   than the spacing of the rates the midpoint can take, and leaves a
   bracket of that width as it is. *)
C23_BracketInvariant ==
    /\ []BracketHolds
    /\ []YieldInDomain
    /\ [][(pc = "loop" /\ pc' = "loop") =>
            /\ HalvedBy(low, high, low', high')
            /\ high - low > 1 => high' - low' < high - low
            /\ high - low = 1 => (low' = low /\ high' = high)]_vars

(* the loop has halved the bracket down to the spacing of the rates and
   goes on *)
C23_Witness ==
    /\ pc = "loop"
    /\ iter > RateBits + 2
    /\ iter < MaxIterations
    /\ high - low = 1

(* the workers in flight: started, and their finished or error signal not
   yet delivered to the window *)
InFlight == running \cup {posted[k].worker : k \in DOMAIN posted}

(* C24: at most one FetchBondsWorker is in flight at any time: neither a
   click on the fetch button nor a tick of the auto-update timer starts a
   fetch while an earlier one has not delivered its finished or error
   signal. *)
C24_OneFetchInFlight == Cardinality(InFlight) <= 1

====
